---- MODULE Spec2Model ----
(***************************************************************************)
(* A model of oh-my-tuna.py: the dispatcher main(), the confirmation gate  *)
(* user_prompt()/ask_if_change() and the seven modules of MODULES, acting  *)
(* on the external resources they read and write (pacman mirrorlist, git   *)
(* remotes, shell profile, tlmgr option, pip.conf, conda channels, apt     *)
(* sources.list).                                                          *)
(*                                                                         *)
(* Python values are modelled by strings: a return value is "True",        *)
(* "False", "NotImplementedError" (the exception main() catches) or        *)
(* "Exception" (any other exception, which nothing catches).               *)
(* sh() returning None is modelled by the command's success flag being     *)
(* FALSE. A command or an open(..., 'w') on a system file succeeds iff the *)
(* process runs as root (is_root); conda config commands also need a       *)
(* well-formed condarc (rc_ok).                                            *)
(***************************************************************************)
EXTENDS Naturals, Sequences, FiniteSets, TLC

(***************************************************************************)
(* Bounds of the model.                                                    *)
(***************************************************************************)
\* longest pacman mirrorlist of an initial state
MaxLines == 1
\* most "export HOMEBREW_BOTTLE_DOMAIN=" lines the shell profile may hold
MaxExports == 2
\* most Homebrew tap directories present on a host
MaxTaps == 1
\* longest mirrorlist of an Arch host whose up/down cycles are followed
MaxMirrorlist == 2

VARIABLES
    \* globals of the program (lines 40-42) and its arguments
    always_yes, is_global, subcommand,
    \* the process: effective uid 0, control state, index into MODULES
    is_root, pc, idx,
    \* the host
    platform, SHELL, environ,
    \* the external resources of the modules
    mirrorlist, brew, profile, tlmgr, pip, conda, apt,
    \* history: what the dispatcher did with the last module it handled,
    \* which command this run follows, is_online() as checked by `up`
    \* and whether this run has so far gone without a declined prompt, a
    \* failed command or an exception
    last, after, onlineAtUp, clean,
    \* history: the -y argument and the resources at the start of this run,
    \* and the lines of the mirrorlist before the first run
    at_start, original

vars == <<always_yes, is_global, subcommand, is_root, pc, idx,
          platform, SHELL, environ,
          mirrorlist, brew, profile, tlmgr, pip, conda, apt,
          last, after, onlineAtUp, clean, at_start, original>>

resources == <<mirrorlist, brew, profile, tlmgr, pip, conda, apt>>

(***************************************************************************)
(* MODULES (line 642) and the taps Homebrew.up/down loop over.             *)
(***************************************************************************)
MODULES == <<"ArchLinux", "Homebrew", "CTAN", "Pypi", "Anaconda", "Debian", "Ubuntu">>

ModuleNames == {MODULES[i] : i \in 1..Len(MODULES)}

Taps == <<"homebrew-core", "homebrew-python", "homebrew-science">>

TapNames == {Taps[i] : i \in 1..Len(Taps)}

Answers == {"y", "n", "a"}

(***************************************************************************)
(* user_prompt (lines 68-76): with always_yes set it returns True without  *)
(* reading; otherwise it reads one answer, "a" sets always_yes, and every  *)
(* answer but "n" is a yes.                                                *)
(***************************************************************************)
\* user_prompt without the test of always_yes (lines 70-71)
user_prompt_ignores_flag(ay, ans) ==
    [ret |-> ans # "n", always_yes |-> ans = "a", read |-> TRUE]

user_prompt(ay, ans) ==
    IF ay
    THEN [ret |-> TRUE, always_yes |-> TRUE, read |-> FALSE]
    ELSE [ret |-> ans # "n", always_yes |-> ans = "a", read |-> TRUE]

(***************************************************************************)
(* The trace of one module action: c.ay is always_yes, c.k the number of   *)
(* answers read so far, and the flags record what the claims ask about:    *)
(*   confirmed  a user_prompt() of this action returned True               *)
(*   declined   a user_prompt() of this action returned False              *)
(*   failed     a mutating command returned None or a write raised         *)
(*   ungated    a mutating command or write ran with no user_prompt() of   *)
(*              this action having returned True before it                 *)
(*   rwy        an answer was read while always_yes was already True       *)
(***************************************************************************)
Ctx0(ay) ==
    [ay |-> ay, k |-> 0, confirmed |-> FALSE, declined |-> FALSE,
     failed |-> FALSE, ungated |-> FALSE, rwy |-> FALSE]

NextAnswer(c, answers) ==
    IF c.k + 1 \in DOMAIN answers THEN answers[c.k + 1] ELSE "y"

\* a call of user_prompt() within a module action
Prompt(c, answers) ==
    LET p == user_prompt(c.ay, NextAnswer(c, answers))
    IN  [ret |-> p.ret,
         c |-> [c EXCEPT !.ay = p.always_yes,
                         !.k = IF p.read THEN c.k + 1 ELSE c.k,
                         !.confirmed = c.confirmed \/ p.ret,
                         !.declined = c.declined \/ ~p.ret,
                         !.rwy = c.rwy \/ (c.ay /\ p.read)]]

\* a mutating command or file write within a module action; ok: it succeeded
Mutation(c, ok) ==
    [c EXCEPT !.ungated = c.ungated \/ ~c.confirmed,
              !.failed = c.failed \/ ~ok]

(***************************************************************************)
(* ask_if_change (lines 79-94) on a setting whose current value is         *)
(* `current`: when it differs from `expected` the operator is prompted and *)
(* on a yes command_set runs (setOk: it succeeds); the function returns    *)
(* True after command_set whatever its outcome, False on a no.             *)
(***************************************************************************)
ask_if_change(c, answers, current, expected, setOk) ==
    IF current # expected
    THEN LET p == Prompt(c, answers)
         IN  IF p.ret
             THEN [ret |-> "True", c |-> Mutation(p.c, setOk),
                   value |-> IF setOk THEN expected ELSE current]
             ELSE [ret |-> "False", c |-> p.c, value |-> current]
    ELSE [ret |-> "True", c |-> c, value |-> current]

(***************************************************************************)
(* get_linux_distro (lines 97-104): the ID of /etc/os-release, None when   *)
(* the file is missing or holds no single ID line.                         *)
(***************************************************************************)
get_linux_distro ==
    IF platform \in {"arch", "debian", "ubuntu"} THEN platform ELSE "None"

(***************************************************************************)
(* The resources as one value: what the modules' operations read, and      *)
(* return changed.                                                         *)
(***************************************************************************)
Res ==
    [mirrorlist |-> mirrorlist, brew |-> brew, profile |-> profile,
     tlmgr |-> tlmgr, pip |-> pip, conda |-> conda, apt |-> apt]

ShellProfile == SHELL \in {"bash", "sh", "zsh"}

(***************************************************************************)
(* set_env (lines 107-116) appends an export line to the profile of a      *)
(* bash, sh or zsh user and only prints otherwise. remove_env (lines       *)
(* 119-137) deletes every such line with sed and returns True; for any     *)
(* other shell `pattern` is never bound and reading it raises.             *)
(***************************************************************************)
set_env(c, w) ==
    IF ShellProfile
    THEN [c |-> Mutation(c, TRUE), res |-> [w EXCEPT !.profile = w.profile + 1]]
    ELSE [c |-> c, res |-> w]

remove_env(c, w) ==
    IF ShellProfile
    THEN [ret |-> "True", c |-> Mutation(c, TRUE), res |-> [w EXCEPT !.profile = 0]]
    ELSE [ret |-> "Exception", c |-> c, res |-> w]

(***************************************************************************)
(* Pypi (lines 225-301). A pip configuration file is "absent", "empty" (no *)
(* index-url in [global]), "tuna" (index-url is the mirror) or "other".    *)
(* config_files() returns None on a platform it does not know.             *)
(***************************************************************************)
Pypi_config_files ==
    IF platform = "freebsd" THEN "None" ELSE "files"

Pypi_is_applicable ==
    IF is_global THEN FALSE ELSE pip.installed

Pypi_is_online(c, w) ==
    IF Pypi_config_files = "None"
    THEN [ret |-> "Exception", c |-> c, res |-> w]
    ELSE [ret |-> IF w.pip.f0 = "tuna" \/ w.pip.f1 = "tuna" THEN "True" ELSE "False",
          c |-> c, res |-> w]

Pypi_up(c, answers, w) ==
    IF Pypi_config_files = "None"
    THEN [ret |-> "Exception", c |-> c, res |-> w]
    ELSE [ret |-> "True", c |-> Mutation(c, TRUE),
          res |-> [w EXCEPT !.pip.f0 = "tuna"]]

\* one round of the loop of Pypi.down over a file that exists: cfg is the
\* index-url the ConfigParser holds, which is shared by the rounds
Pypi_down_file(cfg, file) ==
    LET read == IF file = "empty" THEN cfg ELSE file
    IN  IF read = "none"
        THEN [cfg |-> read, file |-> file, wrote |-> FALSE]
        ELSE IF read = "tuna"
             THEN [cfg |-> "none", file |-> "empty", wrote |-> TRUE]
             ELSE [cfg |-> read, file |-> read, wrote |-> TRUE]

Pypi_down(c, answers, w) ==
    IF Pypi_config_files = "None"
    THEN [ret |-> "Exception", c |-> c, res |-> w]
    ELSE LET r0 == IF w.pip.f0 = "absent"
                   THEN [cfg |-> "none", file |-> "absent", wrote |-> FALSE]
                   ELSE Pypi_down_file("none", w.pip.f0)
             r1 == IF w.pip.f1 = "absent"
                   THEN [cfg |-> r0.cfg, file |-> "absent", wrote |-> FALSE]
                   ELSE Pypi_down_file(r0.cfg, w.pip.f1)
         IN  [ret |-> "True",
              c |-> IF r0.wrote \/ r1.wrote THEN Mutation(c, TRUE) ELSE c,
              res |-> [w EXCEPT !.pip.f0 = r0.file, !.pip.f1 = r1.file]]

(***************************************************************************)
(* ArchLinux (lines 304-392). A line of /etc/pacman.d/mirrorlist is        *)
(* "banner", "tuna" (an uncommented TUNA Server line, which both regular   *)
(* expressions match), "ctuna" (a commented one, which only the one of up  *)
(* matches), "nl" (an empty line) or "other".                              *)
(***************************************************************************)
LineKinds == {"banner", "tuna", "ctuna", "nl", "other"}

ArchLinux_is_applicable ==
    IF ~is_global THEN FALSE
    ELSE mirrorlist.isfile /\ get_linux_distro = "arch"

ArchLinux_is_online(c, w) ==
    [ret |-> IF \E i \in DOMAIN w.mirrorlist.lines : w.mirrorlist.lines[i] = "tuna"
             THEN "True" ELSE "False",
     c |-> c, res |-> w]

\* the filter with a pattern that matches uncommented lines only
NotTunaLine_uncommented(l) == l # "tuna"

NotTunaLine(l) == l \notin {"tuna", "ctuna"}

NotBanner(l) == l # "banner"

RECURSIVE StripPadding(_)
\* lines[k:] for the first k with lines[k] != '\n' (lines 357-359)
StripPadding(lines) ==
    IF lines # <<>> /\ Head(lines) = "nl" THEN StripPadding(Tail(lines)) ELSE lines

ArchLinux_up(c, answers, w) ==
    LET p == Prompt(c, answers)
    IN  IF ~p.ret
        THEN [ret |-> "False", c |-> p.c, res |-> w]
        ELSE LET kept == SelectSeq(SelectSeq(w.mirrorlist.lines, NotTunaLine), NotBanner)
                 out == <<"banner", "tuna", "nl">> \o StripPadding(kept)
             IN  IF is_root
                 THEN [ret |-> "True", c |-> Mutation(p.c, TRUE),
                       res |-> [w EXCEPT !.mirrorlist.lines = out]]
                 ELSE [ret |-> "Exception", c |-> Mutation(p.c, FALSE), res |-> w]

\* the map of ArchLinux.down with a regular expression that matches no line
CommentOut_nothing(lines) == lines

\* lines 385-387: '# ' before every line the regular expression matches
CommentOut(lines) ==
    [i \in DOMAIN lines |-> IF lines[i] = "tuna" THEN "ctuna" ELSE lines[i]]

ArchLinux_down(c, answers, w) ==
    LET p == Prompt(c, answers)
    IN  IF ~p.ret
        THEN [ret |-> "False", c |-> p.c, res |-> w]
        ELSE IF is_root
             THEN [ret |-> "True", c |-> Mutation(p.c, TRUE),
                   res |-> [w EXCEPT !.mirrorlist.lines = CommentOut(w.mirrorlist.lines)]]
             ELSE [ret |-> "Exception", c |-> Mutation(p.c, FALSE), res |-> w]

(***************************************************************************)
(* Homebrew (lines 395-456). brew.origin and brew.taps[t] are the origin   *)
(* remotes ("tuna" or "github") of the brew repository and of each tap     *)
(* ("absent": no such directory). is_online reads HOMEBREW_BOTTLE_DOMAIN   *)
(* from the environment of the process, which set_env does not change.     *)
(***************************************************************************)
Homebrew_is_applicable ==
    IF ~is_global THEN FALSE ELSE brew.installed

Homebrew_is_online(c, w) ==
    LET repo_online == w.brew.origin = "tuna"
    IN  [ret |-> IF repo_online
                 THEN (IF environ = "tuna" THEN "True" ELSE "False")
                 ELSE "False",
         c |-> c, res |-> w]

RECURSIVE Homebrew_up_taps(_, _, _, _)
\* the loop of lines 428-437 from tap i on; the results of ask_if_change
\* are dropped
Homebrew_up_taps(c, answers, taps, i) ==
    IF i > Len(Taps) THEN [c |-> c, taps |-> taps]
    ELSE IF taps[Taps[i]] = "absent"
         THEN Homebrew_up_taps(c, answers, taps, i + 1)
         ELSE LET a == ask_if_change(c, answers, taps[Taps[i]], "tuna", TRUE)
              IN  Homebrew_up_taps(a.c, answers,
                                   [taps EXCEPT ![Taps[i]] = a.value], i + 1)

Homebrew_up(c, answers, w) ==
    LET a == ask_if_change(c, answers, w.brew.origin, "tuna", TRUE)
        t == Homebrew_up_taps(a.c, answers, w.brew.taps, 1)
        e == set_env(t.c, [w EXCEPT !.brew.origin = a.value, !.brew.taps = t.taps])
    IN  [ret |-> "True", c |-> e.c, res |-> e.res]

Homebrew_down(c, answers, w) ==
    LET taps == [t \in TapNames |->
                    IF w.brew.taps[t] = "absent" THEN "absent" ELSE "github"]
        e == remove_env(Mutation(c, TRUE),
                        [w EXCEPT !.brew.origin = "github", !.brew.taps = taps])
    IN  [ret |-> e.ret, c |-> e.c, res |-> e.res]

(***************************************************************************)
(* CTAN (lines 459-494). tlmgr.sys is the repository option of the system  *)
(* tree, tlmgr.user that of the user tree ("none": no user tree yet).      *)
(* is_online runs `tlmgr init-usertree` in user mode, which creates the    *)
(* user tree when there is none. CTAN defines no down: Base.down raises    *)
(* NotImplementedError (lines 192-194).                                    *)
(***************************************************************************)
CTAN_is_applicable == tlmgr.installed

CTAN_is_online(c, w) ==
    IF ~is_global
    THEN LET w1 == IF w.tlmgr.user = "none"
                   THEN [w EXCEPT !.tlmgr.user = "default"] ELSE w
             c1 == IF w.tlmgr.user = "none" THEN Mutation(c, TRUE) ELSE c
         IN  [ret |-> IF w1.tlmgr.user = "tuna" THEN "True" ELSE "False",
              c |-> c1, res |-> w1]
    ELSE [ret |-> IF w.tlmgr.sys = "tuna" THEN "True" ELSE "False",
          c |-> c, res |-> w]

CTAN_up(c, answers, w) ==
    IF is_global
    THEN LET a == ask_if_change(c, answers, w.tlmgr.sys, "tuna", is_root)
         IN  [ret |-> a.ret, c |-> a.c, res |-> [w EXCEPT !.tlmgr.sys = a.value]]
    ELSE LET a == ask_if_change(c, answers, w.tlmgr.user, "tuna", TRUE)
         IN  [ret |-> a.ret, c |-> a.c, res |-> [w EXCEPT !.tlmgr.user = a.value]]

Base_down(c, answers, w) ==
    [ret |-> "NotImplementedError", c |-> c, res |-> w]

CTAN_down(c, answers, w) == Base_down(c, answers, w)

(***************************************************************************)
(* Anaconda (lines 497-548). conda.sys and conda.user are the TUNA         *)
(* channels ("free", "main") in the system and the user condarc. sh() of a *)
(* conda config command returns None when the condarc is malformed         *)
(* (~conda.rc_ok), and for --system when the process is not root.          *)
(***************************************************************************)
Channels == {"free", "main"}

Anaconda_is_applicable == conda.installed

Anaconda_channels(w) == IF is_global THEN w.conda.sys ELSE w.conda.user

Anaconda_is_online(c, w) ==
    IF ~w.conda.rc_ok
    THEN [ret |-> "Exception", c |-> c, res |-> w]
    ELSE [ret |-> IF Cardinality(Anaconda_channels(w)) = Cardinality(Channels)
                  THEN "True" ELSE "False",
          c |-> c, res |-> w]

Anaconda_config(w, chans) ==
    IF is_global THEN [w EXCEPT !.conda.sys = chans]
                 ELSE [w EXCEPT !.conda.user = chans]

Anaconda_writable(w) == w.conda.rc_ok /\ (is_global => is_root)

Anaconda_up(c, answers, w) ==
    LET ok == Anaconda_writable(w)
    IN  [ret |-> "True", c |-> Mutation(c, ok),
         res |-> IF ok THEN Anaconda_config(w, Channels) ELSE w]

Anaconda_down(c, answers, w) ==
    LET ok == Anaconda_writable(w)
    IN  [ret |-> "True", c |-> Mutation(c, ok),
         res |-> IF ok THEN Anaconda_config(w, {}) ELSE w]

(***************************************************************************)
(* Debian and Ubuntu (lines 551-639). apt.sources is the content of        *)
(* /etc/apt/sources.list ("absent": no file), apt.bak that of              *)
(* sources.oh-my-tuna.bak.list. build_template gives the text of a class   *)
(* for its mirror spec or its default sources; "custom" is any other text. *)
(***************************************************************************)
build_template(cls, spec) ==
    CASE cls = "Debian" /\ spec = "mirrorspec" -> "debian_tuna"
      [] cls = "Debian" /\ spec = "default_sources" -> "debian_default"
      [] cls = "Ubuntu" /\ spec = "mirrorspec" -> "ubuntu_tuna"
      [] cls = "Ubuntu" /\ spec = "default_sources" -> "ubuntu_default"

Debian_distro(cls) == IF cls = "Debian" THEN "debian" ELSE "ubuntu"

\* is_applicable() without the test of the distribution (line 585)
Debian_is_applicable_any_distro(cls) ==
    IF ~is_global THEN FALSE ELSE apt.sources # "absent"

Debian_is_applicable(cls) ==
    IF ~is_global THEN FALSE
    ELSE apt.sources # "absent" /\ get_linux_distro = Debian_distro(cls)

Debian_is_online(cls, c, w) ==
    [ret |-> IF w.apt.sources = build_template(cls, "mirrorspec")
             THEN "True" ELSE "False",
     c |-> c, res |-> w]

Debian_up(cls, c, answers, w) ==
    LET p == Prompt(c, answers)
    IN  IF ~p.ret
        THEN [ret |-> "False", c |-> p.c, res |-> w]
        ELSE LET c1 == IF w.apt.sources # "absent" THEN Mutation(p.c, is_root) ELSE p.c
                 w1 == IF w.apt.sources # "absent" /\ is_root
                       THEN [w EXCEPT !.apt.bak = w.apt.sources] ELSE w
             IN  IF is_root
                 THEN [ret |-> "True", c |-> Mutation(c1, TRUE),
                       res |-> [w1 EXCEPT !.apt.sources = build_template(cls, "mirrorspec")]]
                 ELSE [ret |-> "Exception", c |-> Mutation(c1, FALSE), res |-> w1]

Debian_down(cls, c, answers, w) ==
    LET p == Prompt(c, answers)
    IN  IF ~p.ret
        THEN [ret |-> "False", c |-> p.c, res |-> w]
        ELSE IF w.apt.bak # "absent" /\ is_root
             THEN [ret |-> "True", c |-> Mutation(p.c, TRUE),
                   res |-> [w EXCEPT !.apt.sources = w.apt.bak]]
             ELSE LET c1 == IF w.apt.bak # "absent" THEN Mutation(p.c, FALSE) ELSE p.c
                  IN  IF is_root
                      THEN [ret |-> "True", c |-> Mutation(c1, TRUE),
                            res |-> [w EXCEPT !.apt.sources =
                                         build_template(cls, "default_sources")]]
                      ELSE [ret |-> "Exception", c |-> Mutation(c1, FALSE), res |-> w]

(***************************************************************************)
(* The module interface: the methods of MODULES[i] by the name of the      *)
(* class. Ubuntu inherits is_online, up and down from Debian (line 619).   *)
(***************************************************************************)
is_applicable(m) ==
    CASE m = "ArchLinux" -> ArchLinux_is_applicable
      [] m = "Homebrew" -> Homebrew_is_applicable
      [] m = "CTAN" -> CTAN_is_applicable
      [] m = "Pypi" -> Pypi_is_applicable
      [] m = "Anaconda" -> Anaconda_is_applicable
      [] m = "Debian" -> Debian_is_applicable("Debian")
      [] m = "Ubuntu" -> Debian_is_applicable("Ubuntu")

is_online(m, c, w) ==
    CASE m = "ArchLinux" -> ArchLinux_is_online(c, w)
      [] m = "Homebrew" -> Homebrew_is_online(c, w)
      [] m = "CTAN" -> CTAN_is_online(c, w)
      [] m = "Pypi" -> Pypi_is_online(c, w)
      [] m = "Anaconda" -> Anaconda_is_online(c, w)
      [] m = "Debian" -> Debian_is_online("Debian", c, w)
      [] m = "Ubuntu" -> Debian_is_online("Ubuntu", c, w)

up(m, c, answers, w) ==
    CASE m = "ArchLinux" -> ArchLinux_up(c, answers, w)
      [] m = "Homebrew" -> Homebrew_up(c, answers, w)
      [] m = "CTAN" -> CTAN_up(c, answers, w)
      [] m = "Pypi" -> Pypi_up(c, answers, w)
      [] m = "Anaconda" -> Anaconda_up(c, answers, w)
      [] m = "Debian" -> Debian_up("Debian", c, answers, w)
      [] m = "Ubuntu" -> Debian_up("Ubuntu", c, answers, w)

down(m, c, answers, w) ==
    CASE m = "ArchLinux" -> ArchLinux_down(c, answers, w)
      [] m = "Homebrew" -> Homebrew_down(c, answers, w)
      [] m = "CTAN" -> CTAN_down(c, answers, w)
      [] m = "Pypi" -> Pypi_down(c, answers, w)
      [] m = "Anaconda" -> Anaconda_down(c, answers, w)
      [] m = "Debian" -> Debian_down("Debian", c, answers, w)
      [] m = "Ubuntu" -> Debian_down("Ubuntu", c, answers, w)

\* the modules that define down
SupportsDown == ModuleNames \ {"CTAN"}

\* the most user_prompt() calls one action of a module makes
NPrompts(m) ==
    CASE m = "Homebrew" -> 1 + Len(Taps)
      [] m \in {"ArchLinux", "CTAN", "Debian", "Ubuntu"} -> 1
      [] OTHER -> 0

Inputs(m) == [1..NPrompts(m) -> Answers]

(***************************************************************************)
(* main (lines 676-714): the body of each of the three loops for module m. *)
(* The result says what was checked and called (app, onl, call, ret), what *)
(* was logged (msg), the trace c of the action, the resources after it and *)
(* whether an exception left main (raised).                                *)
(***************************************************************************)
\* lines 678-679 and 694-695: the conditions under which up()/down() is called
\* the up loop without the test of is_online() (line 679)
calls_up_unchecked(app, onl) == app

calls_up(app, onl) == app /\ onl = "False"

calls_down(app, onl) == app /\ onl = "True"

\* lines 683-690 and 699-706: the log entry for what up()/down() returned
\* the log entry without the except clause (lines 687-690, 703-706)
report_uncaught(ret, done) ==
    CASE ret = "True" -> done
      [] ret = "False" -> "Operation cancled"
      [] OTHER -> "none"

report(ret, done) ==
    CASE ret = "True" -> done
      [] ret = "False" -> "Operation cancled"
      [] ret = "NotImplementedError" -> "Please do it manually"
      [] OTHER -> "none"

Skipped(c, w, app, onl, msg, raised) ==
    [app |-> app, onl |-> onl, call |-> "none", ret |-> "none", msg |-> msg,
     c |-> c, res |-> w, raised |-> raised]

Called(call, r, onl, done) ==
    [app |-> TRUE, onl |-> onl, call |-> call, ret |-> r.ret,
     msg |-> report(r.ret, done), c |-> r.c, res |-> r.res,
     raised |-> report(r.ret, done) = "none"]

\* the body of the `up` loop for module m, entered with always_yes = ay and
\* the resources w
up_loop(m, answers, ay, w) ==
    IF ~is_applicable(m)
    THEN Skipped(Ctx0(ay), w, FALSE, "none", "none", FALSE)
    ELSE LET o == is_online(m, Ctx0(ay), w)
         IN  IF o.ret = "Exception"
             THEN Skipped(o.c, o.res, TRUE, o.ret, "none", TRUE)
             ELSE IF calls_up(TRUE, o.ret)
                  THEN Called("up", up(m, o.c, answers, o.res), o.ret,
                              "Mirror has been activated")
                  ELSE Skipped(o.c, o.res, TRUE, o.ret, "none", FALSE)

\* the body of the `down` loop for module m, entered with always_yes = ay and
\* the resources w
down_loop(m, answers, ay, w) ==
    IF ~is_applicable(m)
    THEN Skipped(Ctx0(ay), w, FALSE, "none", "none", FALSE)
    ELSE LET o == is_online(m, Ctx0(ay), w)
         IN  IF o.ret = "Exception"
             THEN Skipped(o.c, o.res, TRUE, o.ret, "none", TRUE)
             ELSE IF calls_down(TRUE, o.ret)
                  THEN Called("down", down(m, o.c, answers, o.res), o.ret,
                              "Mirror has been deactivated")
                  ELSE Skipped(o.c, o.res, TRUE, o.ret, "none", FALSE)

\* the body of the `status` loop for module m
status_loop(m, ay, w) ==
    IF ~is_applicable(m)
    THEN Skipped(Ctx0(ay), w, FALSE, "none", "none", FALSE)
    ELSE LET o == is_online(m, Ctx0(ay), w)
         IN  IF o.ret = "Exception"
             THEN Skipped(o.c, o.res, TRUE, o.ret, "none", TRUE)
             ELSE Skipped(o.c, o.res, TRUE, o.ret,
                          IF o.ret = "True" THEN "Online" ELSE "Offline", FALSE)

\* the loop bodies in the state the dispatcher is in
main_up(m, answers) == up_loop(m, answers, always_yes, Res)

main_down(m, answers) == down_loop(m, answers, always_yes, Res)

main_status(m) == status_loop(m, always_yes, Res)

(***************************************************************************)
(* Initial states: a host before the first run. The tools that make a      *)
(* module applicable are "pacman" (an Arch host with a mirrorlist), "apt"  *)
(* (a Debian or Ubuntu host with a sources.list), "brew", "tlmgr", "pip"   *)
(* and "conda". A host with one tool starts in any configuration of that   *)
(* tool (of Homebrew: any set of taps, all remotes upstream); a host with   *)
(* two tools starts with both in their upstream configuration. The other   *)
(* configurations are reached by running the program. The                  *)
(* resources of a tool that is not installed are never read.               *)
(***************************************************************************)
Tools == {"pacman", "apt", "brew", "tlmgr", "pip", "conda"}

Mirrorlists == UNION {[1..n -> LineKinds] : n \in 0..MaxLines}

TapStates ==
    {t \in [TapNames -> {"absent", "github"}] :
        Cardinality({n \in TapNames : t[n] # "absent"}) <= MaxTaps}

NoTaps == [t \in TapNames |-> "absent"]

Absent ==
    [mirrorlist |-> [isfile |-> FALSE, lines |-> <<>>],
     brew |-> [installed |-> FALSE, origin |-> "github", taps |-> NoTaps],
     tlmgr |-> [installed |-> FALSE, sys |-> "default", user |-> "none"],
     pip |-> [installed |-> FALSE, f0 |-> "absent", f1 |-> "absent"],
     conda |-> [installed |-> FALSE, rc_ok |-> TRUE, sys |-> {}, user |-> {}],
     apt |-> [sources |-> "absent", bak |-> "absent"]]

Upstream ==
    [mirrorlist |-> [isfile |-> TRUE, lines |-> <<"other">>],
     brew |-> [installed |-> TRUE, origin |-> "github",
               taps |-> [NoTaps EXCEPT !["homebrew-core"] = "github"]],
     tlmgr |-> [installed |-> TRUE, sys |-> "default", user |-> "none"],
     pip |-> [installed |-> TRUE, f0 |-> "absent", f1 |-> "absent"],
     conda |-> [installed |-> TRUE, rc_ok |-> TRUE, sys |-> {}, user |-> {}],
     apt |-> [sources |-> "custom", bak |-> "absent"]]

Configurations(tool) ==
    CASE tool = "pacman" -> {[isfile |-> TRUE, lines |-> l] : l \in Mirrorlists}
      [] tool = "brew" ->
            {[installed |-> TRUE, origin |-> "github", taps |-> t] : t \in TapStates}
      [] tool = "tlmgr" ->
            {[installed |-> TRUE, sys |-> s, user |-> u] :
                s \in {"default", "tuna"}, u \in {"none", "default", "tuna"}}
      [] tool = "pip" ->
            {[installed |-> TRUE, f0 |-> a, f1 |-> b] :
                a \in {"absent", "empty", "tuna", "other"},
                b \in {"absent", "empty", "tuna", "other"}}
      [] tool = "conda" ->
            {[installed |-> TRUE, rc_ok |-> TRUE, sys |-> s, user |-> u] :
                s \in SUBSET Channels, u \in SUBSET Channels}
            \cup {[installed |-> TRUE, rc_ok |-> FALSE, sys |-> {}, user |-> {}]}
      [] tool = "apt" ->
            {[sources |-> s, bak |-> b] :
                s \in {"custom", "debian_tuna", "debian_default",
                       "ubuntu_tuna", "ubuntu_default"},
                b \in {"absent", "custom"}}

InitOf(T, tool, field) ==
    IF tool \notin T THEN {Absent[field]}
    ELSE IF Cardinality(T) = 1 THEN Configurations(tool)
    ELSE {Upstream[field]}

Platforms(T) ==
    IF "pacman" \in T THEN {"arch"}
    ELSE IF "apt" \in T THEN {"debian", "ubuntu"}
    ELSE IF T = {"pip"} THEN {"linux", "freebsd"}
    ELSE {"linux"}

Shells(T) ==
    IF T = {"brew"} THEN {"bash", "zsh", "fish"} ELSE {"bash"}

NoStep ==
    [m |-> "none", app |-> FALSE, onl |-> "none", call |-> "none",
     ret |-> "none", msg |-> "none", reads |-> 0, confirmed |-> FALSE,
     declined |-> FALSE, failed |-> FALSE, ungated |-> FALSE, rwy |-> FALSE,
     changed |-> FALSE, always_yes |-> FALSE]

NotChecked == [m \in ModuleNames |-> "none"]

\* the process and the history before the first run
BeforeFirstRun ==
    /\ always_yes = FALSE
    /\ is_global = TRUE
    /\ subcommand = "up"
    /\ is_root = FALSE
    /\ pc = "idle"
    /\ idx = 1
    /\ environ = "unset"
    /\ profile = 0
    /\ last = NoStep
    /\ after = "none"
    /\ onlineAtUp = NotChecked
    /\ clean = TRUE

Init ==
    /\ BeforeFirstRun
    /\ \E T \in SUBSET Tools :
        /\ Cardinality(T) <= 2
        /\ ~({"pacman", "apt"} \subseteq T)
        /\ platform \in Platforms(T)
        /\ SHELL \in Shells(T)
        /\ mirrorlist \in InitOf(T, "pacman", "mirrorlist")
        /\ brew \in InitOf(T, "brew", "brew")
        /\ tlmgr \in InitOf(T, "tlmgr", "tlmgr")
        /\ pip \in InitOf(T, "pip", "pip")
        /\ conda \in InitOf(T, "conda", "conda")
        /\ apt \in InitOf(T, "apt", "apt")
    /\ at_start = [yes |-> FALSE, res |-> Res]
    /\ original = mirrorlist.lines

\* an Arch host with pacman and none of the other tools, with any mirrorlist
\* of at most MaxMirrorlist lines
ArchMirrorlists == UNION {[1..n -> LineKinds] : n \in 0..MaxMirrorlist}

InitArch ==
    /\ BeforeFirstRun
    /\ platform = "arch"
    /\ SHELL = "bash"
    /\ mirrorlist \in [isfile : {TRUE}, lines : ArchMirrorlists]
    /\ brew = Absent.brew
    /\ tlmgr = Absent.tlmgr
    /\ pip = Absent.pip
    /\ conda = Absent.conda
    /\ apt = Absent.apt
    /\ at_start = [yes |-> FALSE, res |-> Res]
    /\ original = mirrorlist.lines

(***************************************************************************)
(* main, lines 668-674: a run starts with the arguments parsed into the    *)
(* globals. `after` is "up" when the run before was an `up` that ended     *)
(* normally and clean, in the same scope and the same shell session, and   *)
(* "up -y" when that run also ended with always_yes set.                   *)
(* Being root matters to the system-wide resources only, so a run in user  *)
(* scope is taken as one of an ordinary user.                              *)
(***************************************************************************)
Start(cmd, yes, glob, root) ==
    /\ pc \in {"idle", "done", "crashed"}
    /\ root => glob
    /\ subcommand' = cmd
    /\ always_yes' = yes
    /\ is_global' = glob
    /\ is_root' = root
    /\ pc' = "running"
    /\ idx' = 1
    /\ after' = IF pc = "done" /\ clean /\ glob = is_global /\ subcommand = "up"
                THEN (IF always_yes THEN "up -y" ELSE "up") ELSE "none"
    /\ onlineAtUp' = IF cmd = "down" /\ after' # "none"
                     THEN onlineAtUp ELSE NotChecked
    /\ last' = NoStep
    /\ clean' = TRUE
    /\ at_start' = [yes |-> yes, res |-> Res]
    /\ UNCHANGED <<platform, SHELL, environ, resources, original>>

\* the dispatcher has handled module MODULES[idx] with result d
Handled(m, d) ==
    /\ d.res.profile <= MaxExports
    /\ always_yes' = d.c.ay
    /\ mirrorlist' = d.res.mirrorlist
    /\ brew' = d.res.brew
    /\ profile' = d.res.profile
    /\ tlmgr' = d.res.tlmgr
    /\ pip' = d.res.pip
    /\ conda' = d.res.conda
    /\ apt' = d.res.apt
    /\ pc' = IF d.raised THEN "crashed"
             ELSE IF idx = Len(MODULES) THEN "done" ELSE "running"
    /\ idx' = IF d.raised THEN idx ELSE idx + 1
    /\ last' = [m |-> m, app |-> d.app, onl |-> d.onl, call |-> d.call,
                ret |-> d.ret, msg |-> d.msg, reads |-> d.c.k,
                confirmed |-> d.c.confirmed, declined |-> d.c.declined,
                failed |-> d.c.failed, ungated |-> d.c.ungated,
                rwy |-> d.c.rwy, changed |-> d.res # Res,
                always_yes |-> always_yes]
    /\ clean' = (clean /\ ~d.raised /\ ~d.c.declined /\ ~d.c.failed)
    /\ onlineAtUp' = IF subcommand = "up"
                     THEN [onlineAtUp EXCEPT ![m] = d.onl] ELSE onlineAtUp
    /\ UNCHANGED <<is_global, subcommand, is_root, platform, SHELL, environ,
                   after, at_start, original>>

RunUp ==
    /\ pc = "running" /\ subcommand = "up"
    /\ \E answers \in Inputs(MODULES[idx]) :
          Handled(MODULES[idx], main_up(MODULES[idx], answers))

RunDown ==
    /\ pc = "running" /\ subcommand = "down"
    /\ \E answers \in Inputs(MODULES[idx]) :
          Handled(MODULES[idx], main_down(MODULES[idx], answers))

RunStatus ==
    /\ pc = "running" /\ subcommand = "status"
    /\ Handled(MODULES[idx], main_status(MODULES[idx]))

(***************************************************************************)
(* The operator opens a new login shell, which reads the profile that      *)
(* set_env and remove_env edit: the environment of later runs.             *)
(***************************************************************************)
NewShell ==
    /\ pc \in {"done", "crashed"}
    /\ environ' = IF ShellProfile /\ profile > 0 THEN "tuna" ELSE "unset"
    /\ environ' # environ
    /\ pc' = "idle"
    /\ last' = NoStep
    /\ after' = "none"
    /\ onlineAtUp' = NotChecked
    /\ clean' = TRUE
    /\ at_start' = [yes |-> FALSE, res |-> Res]
    /\ UNCHANGED <<always_yes, is_global, subcommand, is_root, idx,
                   platform, SHELL, resources, original>>

Next ==
    \/ \E cmd \in {"up", "down", "status"}, yes \in BOOLEAN,
          glob \in BOOLEAN, root \in BOOLEAN : Start(cmd, yes, glob, root)
    \/ RunUp
    \/ RunDown
    \/ RunStatus
    \/ NewShell

Spec == Init /\ [][Next]_vars

\* the runs on an Arch host, where no shell profile is edited
NextArch ==
    \/ \E cmd \in {"up", "down", "status"}, yes \in BOOLEAN,
          glob \in BOOLEAN, root \in BOOLEAN : Start(cmd, yes, glob, root)
    \/ RunUp
    \/ RunDown
    \/ RunStatus

SpecArch == InitArch /\ [][NextArch]_vars

(***************************************************************************)
(* Properties.                                                             *)
(***************************************************************************)
\* the modules this run has handled
HandledModules == {MODULES[i] : i \in 1..(IF pc = "done" THEN Len(MODULES) ELSE idx - 1)}

\* is_online() of module m in the current state
OnlineNow(m) == is_online(m, Ctx0(FALSE), Res).ret

\* C1: in an `up` run with always_yes set that follows a clean, confirmed
\* `up` run, every applicable module is found online, no up() is called and
\* no resource changes.
C1_SecondUpIsNoOp ==
    (after = "up -y" /\ subcommand = "up" /\ always_yes /\ last.m # "none")
        => /\ last.app => last.onl = "True"
           /\ last.call = "none"
           /\ ~last.changed

C3_DeclineAborts ==
    last.declined
        => /\ last.ret = "False"
           /\ last.msg = "Operation cancled"
           /\ ~last.changed

\* C4: no module action (is_online() included) runs a mutating command or
\* writes a file unless a user_prompt() of that action returned True before.
C4_WritesAreGated == ~last.ungated

\* C5: once always_yes is True no answer is read for the rest of the run,
\* whatever the modules do, and the flag stays True.
C5_AlwaysYesSuppressesPrompts ==
    last.m # "none"
        => /\ ~last.rwy
           /\ last.always_yes => (last.reads = 0 /\ always_yes)

C5_Witness ==
    /\ last.always_yes /\ last.call = "up" /\ last.confirmed
    /\ last.changed /\ last.reads = 0 /\ always_yes

\* C6: no failure inside a module ends the run: the dispatcher never stops
\* before it has handled every module.
C6_NoFailureIsFatal == pc # "crashed"

\* C7: up() is called only in `up` for a module whose is_applicable()
\* returned True and whose is_online() returned False in this run, down()
\* only in `down` for one applicable and online, and `status` calls neither.
C7_CallsAreGated ==
    /\ last.call = "up" => (subcommand = "up" /\ last.app /\ last.onl = "False")
    /\ last.call = "down" => (subcommand = "down" /\ last.app /\ last.onl = "True")
    /\ subcommand = "status" => last.call = "none"
    /\ ~last.app => last.call = "none"

C7_Witness ==
    /\ last.call = "up" /\ last.ret = "True" /\ last.onl = "False"
    /\ last.m = "Pypi" /\ last.changed

C9_OnlineNeverRaises ==
    (last.app /\ Pypi_config_files # "None") => last.onl \in {"True", "False"}

\* C10: when up() returns True, and the dispatcher logs the activation,
\* no mutation of the module was declined and none failed.
C10_TrueMeansApplied ==
    (last.call = "up" /\ last.ret = "True")
        => /\ last.msg = "Mirror has been activated"
           /\ ~last.declined
           /\ ~last.failed

\* the resources module m reads and writes
Own(m, w) ==
    CASE m = "ArchLinux" -> <<w.mirrorlist>>
      [] m = "Homebrew" -> <<w.brew, w.profile>>
      [] m = "CTAN" -> <<w.tlmgr>>
      [] m = "Pypi" -> <<w.pip>>
      [] m = "Anaconda" -> <<w.conda>>
      [] OTHER -> <<w.apt>>

\* the loop body of this run's command for module m, were m the first
\* module of the run: entered with always_yes as the -y argument set it and
\* with the resources as they were when the run started
Alone(m, answers) ==
    CASE subcommand = "up" -> up_loop(m, answers, at_start.yes, at_start.res)
      [] subcommand = "down" -> down_loop(m, answers, at_start.yes, at_start.res)
      [] OTHER -> status_loop(m, at_start.yes, at_start.res)

\* the last module was handled as it would have been handled alone, for
\* some answers of the operator to its prompts: the same checks and call,
\* the same result and log entry, as many answers read, and, if it applies
\* to the host, its resources left the same
SameAsAlone ==
    \E answers \in Inputs(last.m) :
        LET d == Alone(last.m, answers)
        IN  /\ d.app = last.app /\ d.onl = last.onl
            /\ d.call = last.call /\ d.ret = last.ret /\ d.msg = last.msg
            /\ d.c.k = last.reads /\ d.c.declined = last.declined
            /\ last.app => Own(last.m, d.res) = Own(last.m, Res)

\* C11 (as stated): the outcome of every module the dispatcher handles, and
\* whether it prompts, are what they would be were the module handled first
\* in the run, whatever happened in the modules handled before it: the
\* modules share no state and their order is insignificant.
C11_OrderInsignificant ==
    last.m # "none" => SameAsAlone

\* C11 (amended): the always_yes flag is the only state the modules share.
\* A module that the dispatcher reaches with always_yes still as the -y
\* argument set it (no earlier prompt of the run was answered "a") is
\* handled as it would have been handled first in the run, whatever the
\* modules before it did to their own resources.
C11_IndependentButForAlwaysYes ==
    (last.m # "none" /\ last.always_yes = at_start.yes) => SameAsAlone

C11_Witness ==
    /\ last.m = "CTAN" /\ last.call = "up" /\ last.ret = "True"
    /\ last.reads = 1 /\ ~at_start.yes /\ ~last.always_yes
    /\ at_start.res.brew.origin = "github" /\ brew.origin = "tuna"
    /\ SameAsAlone

(***************************************************************************)
(* The mirrorlist of an Arch host over cycles of up() and down().          *)
(***************************************************************************)
\* the number of lines of the kinds K
Count(lines, K) == Cardinality({i \in DOMAIN lines : lines[i] \in K})

\* the lines that are neither a TUNA Server line nor the banner, in order
OtherLines(lines) ==
    SelectSeq(lines, LAMBDA l : l \notin {"tuna", "ctuna", "banner"})

\* a is b with some lines left out
RECURSIVE IsSubseq(_, _)
IsSubseq(a, b) ==
    IF a = <<>> THEN TRUE
    ELSE IF b = <<>> THEN FALSE
    ELSE IF Head(a) = Head(b) THEN IsSubseq(Tail(a), Tail(b))
    ELSE IsSubseq(a, Tail(b))

\* lines from its first line that is not blank
FromFirstText(lines) ==
    LET blank == {i \in DOMAIN lines : \A j \in 1..i : lines[j] = "nl"}
    IN  SubSeq(lines, Cardinality(blank) + 1, Len(lines))

\* ArchLinux.up() / .down() has just returned True
ArchUpDone == last.m = "ArchLinux" /\ last.call = "up" /\ last.ret = "True"

ArchDownDone == last.m = "ArchLinux" /\ last.call = "down" /\ last.ret = "True"

\* the mirrorlist begins with the banner and one uncommented TUNA Server
\* line and holds no other TUNA Server line and no second banner
BannerThenTuna(lines) ==
    /\ Len(lines) >= 2 /\ lines[1] = "banner" /\ lines[2] = "tuna"
    /\ Count(lines, {"tuna", "ctuna"}) = 1
    /\ Count(lines, {"banner"}) = 1

\* the mirrorlist is the one before down() with each uncommented TUNA Server
\* line commented out: no line removed, added or moved
OnlyCommentedOut(before, lines) ==
    /\ Len(lines) = Len(before)
    /\ \A i \in DOMAIN lines :
          lines[i] = IF before[i] = "tuna" THEN "ctuna" ELSE before[i]

====
